---- MODULE Spec2Model ----
(***************************************************************************)
(* The trigger engine of the crypto dashboard (src/triggers.py) with its   *)
(* two sinks (src/telegram_utils.py, src/journal.py).                      *)
(*                                                                         *)
(* Units.  Time is counted in hours: time.time() and datetime.now() read   *)
(* the same clock `now`, the cooldown of cooldown_hours * 3600 seconds is  *)
(* cooldown_hours hours, and the date of day d parses to the instant       *)
(* 24 * d (its midnight).  Allocations are in percent (0.70 is 70),        *)
(* funding rates in hundredths of a percent (0.10 is 10), btc_dominance    *)
(* and alt_season_index in whole points, stablecoin_delta in USD.          *)
(* Alert texts are the fixed part of the formatted message.                *)
(***************************************************************************)
EXTENDS Integers, Sequences, FiniteSets, TLC

VARIABLES
    now,                \* the wall clock, in hours
    last_trigger_time,  \* TriggerEngine.last_trigger_time: key -> hour of last fire
    last_allocation,    \* TriggerEngine.last_allocation
    calls,              \* number of check_all_triggers calls made so far
    call,               \* what the most recent call saw and did
    prev,               \* summary of the call before it
    sessions,           \* per browser session: where its script run stands
    alerts              \* the Telegram chat: every message delivered so far

vars == <<now, last_trigger_time, last_allocation, calls, call, prev,
          sessions, alerts>>

-----------------------------------------------------------------------------
(* Python values *)

None == "None"          \* the absent Optional[str]
NoAllocation == <<>>    \* last_allocation = None (falsy, like the empty tuple)

Abs(x) == IF x < 0 THEN -x ELSE x

\* dict.get(key, default)
Get(metrics, key, default) ==
    IF key \in DOMAIN metrics THEN metrics[key] ELSE default

-----------------------------------------------------------------------------
(* Sinks.  A run record r carries the clock, the journal's health, the     *)
(* cooldown map and what the call has emitted so far; r.raised is set by   *)
(* a statement that raised and stops the statements after it.              *)

\* send_telegram_message never raises: every failure ends in `return False`.
send_telegram_message(r, text) ==
    [r EXCEPT !.sent = Append(@, text)]

\* append_journal_entry opens the file with no handler: an OSError propagates.
append_journal_entry(r, asset, change_pct) ==
    IF r.journal_ok
    THEN [r EXCEPT !.journal = Append(@, <<asset, change_pct>>)]
    ELSE [r EXCEPT !.raised = TRUE]

-----------------------------------------------------------------------------
(* Cooldown tracker *)

cooldown_hours == 12

_should_trigger_strict(r, trigger_name) ==
    LET last_time == Get(r.last_trigger_time, trigger_name, 0)
    IN  (r.now - last_time) > cooldown_hours

\* the window taken in minutes: cooldown_hours * 60 seconds
_should_trigger_minutes(r, trigger_name) ==
    LET last_time == Get(r.last_trigger_time, trigger_name, 0)
    IN  (r.now - last_time) * 60 >= cooldown_hours

_should_trigger(r, trigger_name) ==
    LET last_time == Get(r.last_trigger_time, trigger_name, 0)
    IN  (r.now - last_time) >= cooldown_hours

\* the map replaced by the single entry instead of updated
_record_trigger_reset(r, trigger_name) ==
    [r EXCEPT !.last_trigger_time = (trigger_name :> r.now)]

_record_trigger(r, trigger_name) ==
    [r EXCEPT !.last_trigger_time = (trigger_name :> r.now) @@ @]

-----------------------------------------------------------------------------
(* Allocation calculator *)

calculate_allocation_gap(metrics) ==
    LET btc_dom == Get(metrics, "btc_dominance", 60)
        alt_index == Get(metrics, "alt_season_index", 50)
    IN  IF btc_dom >= 60 /\ alt_index < 50 THEN <<70, 25, 5>>
        ELSE IF btc_dom < 60 /\ alt_index >= 50 THEN <<45, 50, 5>>
        ELSE <<60, 35, 5>>

calculate_allocation(metrics) ==
    LET btc_dom == Get(metrics, "btc_dominance", 60)
        alt_index == Get(metrics, "alt_season_index", 50)
    IN  IF btc_dom >= 61 /\ alt_index < 50 THEN <<70, 25, 5>>
        ELSE IF btc_dom < 60 /\ alt_index >= 50 THEN <<45, 50, 5>>
        ELSE <<60, 35, 5>>

-----------------------------------------------------------------------------
(* Condition evaluators.  Each returns [r |-> the run after it,            *)
(* result |-> its return value]; when r.raised the evaluator did not       *)
(* return and result is meaningless.                                       *)

\* The firing statements shared by the evaluators: record, notify, journal.
Alert(r, trigger_name, message, asset, change_pct) ==
    append_journal_entry(
        send_telegram_message(_record_trigger(r, trigger_name), message),
        asset, change_pct)

Returned(r, message) ==
    [r |-> r, result |-> IF r.raised THEN None ELSE message]

\* alt_index >= 50 in place of alt_index > 50
check_rotation_triggers_inclusive(r, metrics) ==
    LET btc_dom == Get(metrics, "btc_dominance", 60)
        alt_index == Get(metrics, "alt_season_index", 50)
        trigger_name == "rotation"
    IN  IF btc_dom < 60 /\ alt_index >= 50 /\ _should_trigger(r, trigger_name)
        THEN Returned(Alert(r, trigger_name, "BTC.D < 60% & alt momentum",
                            "ROTATION", -10),
                      "BTC.D < 60% & alt momentum")
        ELSE [r |-> r, result |-> None]

check_rotation_triggers(r, metrics) ==
    LET btc_dom == Get(metrics, "btc_dominance", 60)
        alt_index == Get(metrics, "alt_season_index", 50)
        trigger_name == "rotation"
    IN  IF btc_dom < 60 /\ alt_index > 50 /\ _should_trigger(r, trigger_name)
        THEN Returned(Alert(r, trigger_name, "BTC.D < 60% & alt momentum",
                            "ROTATION", -10),
                      "BTC.D < 60% & alt momentum")
        ELSE [r |-> r, result |-> None]

check_alt_season_triggers(r, metrics) ==
    LET alt_index == Get(metrics, "alt_season_index", 50)
    IN  IF alt_index >= 75 /\ _should_trigger(r, "alt_season_full")
        THEN Returned(Alert(r, "alt_season_full", "Full alt-season", "ALTS", 25),
                      "Full alt-season")
        ELSE IF alt_index <= 25 /\ _should_trigger(r, "alt_season_end")
        THEN Returned(Alert(r, "alt_season_end", "Back to BTC dominance", "BTC", 20),
                      "Back to BTC dominance")
        ELSE [r |-> r, result |-> None]

\* "; ".join(messages) if messages else None
Join(messages) ==
    IF Len(messages) = 0 THEN None
    ELSE IF Len(messages) = 1 THEN messages[1]
    ELSE messages[1] \o "; " \o messages[2]

check_funding_triggers(r, metrics) ==
    LET btc_funding == Get(metrics, "btc_funding_rate", 0)
        hype_funding == Get(metrics, "hype_funding_rate", 0)
        btc_fires == Abs(btc_funding) >= 10 /\ _should_trigger(r, "funding_btc")
        r1 == IF btc_fires
              THEN Alert(r, "funding_btc", "Crowded leverage: BTC", "BTC", -20)
              ELSE r
        messages1 == IF btc_fires THEN <<"Crowded leverage: BTC">> ELSE <<>>
        hype_fires == /\ ~r1.raised
                      /\ Abs(hype_funding) >= 10
                      /\ _should_trigger(r1, "funding_hype")
        r2 == IF hype_fires
              THEN Alert(r1, "funding_hype", "Crowded leverage: HYPE", "HYPE", -20)
              ELSE r1
        messages2 == IF hype_fires
                     THEN Append(messages1, "Crowded leverage: HYPE")
                     ELSE messages1
    IN  Returned(r2, Join(messages2))

check_stablecoin_triggers(r, metrics) ==
    LET stable_delta == Get(metrics, "stablecoin_delta", 0)
    IN  IF stable_delta >= 1000000000 /\ _should_trigger(r, "stablecoin_issuance")
        THEN Returned(Alert(r, "stablecoin_issuance", "New stable-coin issuance",
                            "STABLES", 10),
                      "New stable-coin issuance")
        ELSE [r |-> r, result |-> None]

\* A date string is modelled by its day number; a number below 1 stands for
\* a string datetime.strptime(..., '%Y-%m-%d') rejects with ValueError.
DateParses(date) == date >= 1

\* the date taken at noon instead of 00:00
strptime_noon(date) == 24 * date + 12

strptime(date) == 24 * date

MacroKey(event) == "macro_" \o event.event
MacroMessage(event) == "Macro in play: " \o event.event

RECURSIVE MacroLoop(_, _, _)
MacroLoop(r, macro_events, i) ==
    IF i > Len(macro_events) THEN [r |-> r, result |-> None]
    ELSE LET event == macro_events[i]
         IN  IF ~DateParses(event.date)
             THEN MacroLoop(r, macro_events, i + 1)       \* except: continue
             ELSE LET time_diff == Abs(strptime(event.date) - r.now)
                  IN  IF time_diff <= 12 /\ _should_trigger(r, MacroKey(event))
                      THEN LET r3 == Alert(r, MacroKey(event), MacroMessage(event),
                                           "CASH", 0)
                           IN  IF r3.raised
                               \* the journal's exception is caught by the
                               \* loop's own handler: continue
                               THEN MacroLoop([r3 EXCEPT !.raised = FALSE],
                                              macro_events, i + 1)
                               ELSE [r |-> r3, result |-> MacroMessage(event)]
                      ELSE MacroLoop(r, macro_events, i + 1)

check_macro_triggers(r, metrics) ==
    MacroLoop(r, Get(metrics, "macro_events", <<>>), 1)

-----------------------------------------------------------------------------
(* Orchestrator *)

Stages == <<"rotation", "alt_season", "funding", "stablecoin", "macro">>

Evaluate(stage, r, metrics) ==
    CASE stage = "rotation" -> check_rotation_triggers(r, metrics)
      [] stage = "alt_season" -> check_alt_season_triggers(r, metrics)
      [] stage = "funding" -> check_funding_triggers(r, metrics)
      [] stage = "stablecoin" -> check_stablecoin_triggers(r, metrics)
      [] stage = "macro" -> check_macro_triggers(r, metrics)

\* The results dict literal: the five evaluators in order; an exception in
\* one leaves the later ones unevaluated.  acc = [r, results, raisedIn].
RECURSIVE RunStages(_, _, _)
RunStages(acc, metrics, i) ==
    IF i > Len(Stages) \/ acc.raisedIn # None THEN acc
    ELSE LET e == Evaluate(Stages[i], acc.r, metrics)
         IN  RunStages(
                 [r |-> e.r,
                  results |-> IF e.r.raised THEN acc.results
                              ELSE [acc.results EXCEPT ![Stages[i]] = e.result],
                  raisedIn |-> IF e.r.raised THEN Stages[i] ELSE None],
                 metrics, i + 1)

NoResults ==
    [rotation |-> None, alt_season |-> None, funding |-> None,
     stablecoin |-> None, macro |-> None, allocation |-> NoAllocation]

\* check_all_triggers on an engine (ltt, alloc) at clock t with journal
\* health jok: the engine fields after the call, what was emitted, and
\* either the returned results or the stage whose exception reached the caller.
check_all_triggers(ltt, alloc, t, jok, metrics) ==
    LET r0 == [now |-> t, journal_ok |-> jok, last_trigger_time |-> ltt,
               sent |-> <<>>, journal |-> <<>>, raised |-> FALSE]
        acc == RunStages([r |-> r0, results |-> NoResults, raisedIn |-> None],
                         metrics, 1)
        current_allocation == calculate_allocation(metrics)
        changed == alloc # NoAllocation /\ alloc # current_allocation
        r1 == IF changed
              THEN append_journal_entry(
                       send_telegram_message(acc.r, "Allocation Update"),
                       "ALLOCATION", current_allocation[1] - alloc[1])
              ELSE acc.r
    IN  IF acc.raisedIn # None
        THEN [last_trigger_time |-> acc.r.last_trigger_time,
              last_allocation |-> alloc,
              sent |-> acc.r.sent, journal |-> acc.r.journal,
              returned |-> FALSE, raisedIn |-> acc.raisedIn,
              results |-> NoResults]
        ELSE IF r1.raised
        THEN [last_trigger_time |-> r1.last_trigger_time,
              last_allocation |-> alloc,
              sent |-> r1.sent, journal |-> r1.journal,
              returned |-> FALSE, raisedIn |-> "allocation",
              results |-> NoResults]
        ELSE [last_trigger_time |-> r1.last_trigger_time,
              last_allocation |-> current_allocation,
              sent |-> r1.sent, journal |-> r1.journal,
              returned |-> TRUE, raisedIn |-> None,
              results |-> [acc.results EXCEPT !.allocation = current_allocation]]

-----------------------------------------------------------------------------------------------------------------------------------------------------
(* Inputs *)

MaxCalls == 2

StartTime == 36                \* the engine is constructed at 12:00 of day 1
ElapsedHours == {6, 12}        \* time between two refreshes

Event(name, date) == [event |-> name, date |-> date]

MacroLists ==
    { <<Event("Fed Meeting", 2), Event("CPI", 2)>>,
      <<Event("Fed Meeting", 0), Event("CPI", 1), Event("Fed Meeting", 2)>> }

Restrict(f, D) == [k \in D |-> f[k]]

\* f extended by g on the keys f lacks
Merge(f, g) == f @@ g

Snapshots ==
    { Merge(Merge(market, leverage), Merge(stable, macro)) :
        market \in {<<>>, [btc_dominance |-> 59, alt_season_index |-> 75]},
        leverage \in {<<>>, [btc_funding_rate |-> 10, hype_funding_rate |-> -10]},
        stable \in {<<>>, [stablecoin_delta |-> 1000000000]},
        macro \in {<<>>} \cup { [macro_events |-> l] : l \in MacroLists } }

-----------------------------------------------------------------------------
(* State machine *)

NoCall ==
    [metrics |-> <<>>, at |-> 0, journal_ok |-> TRUE,
     pre_ltt |-> <<>>, pre_alloc |-> NoAllocation,
     sent |-> <<>>, journal |-> <<>>,
     returned |-> FALSE, raisedIn |-> None, results |-> NoResults]

NoPrev ==
    [metrics |-> <<>>, at |-> 0, returned |-> FALSE,
     results |-> NoResults, fired |-> {}]

\* the keys a call recorded: those whose time became the call's instant
FiredKeys(pre, post, t) ==
    { k \in DOMAIN post : post[k] = t /\ Get(pre, k, 0) # t }

\* The browser sessions served by the one Streamlit process: each runs the
\* script in a thread of its own and gets the same cached TriggerEngine.
Sessions == {1, 2}

IdleSession ==
    [pc |-> "idle", metrics |-> <<>>, program |-> <<>>, i |-> 0,
     results |-> NoResults, returned |-> FALSE, overlapped |-> FALSE]

\* TriggerEngine.__init__
Init ==
    /\ now = StartTime
    /\ last_trigger_time = <<>>       \* {}
    /\ last_allocation = NoAllocation
    /\ calls = 0
    /\ call = NoCall
    /\ prev = NoPrev
    /\ sessions = [s \in Sessions |-> IdleSession]
    /\ alerts = <<>>

\* dashboard.main, `elapsed` hours after the previous run of the script:
\* trigger_engine.check_all_triggers(metrics), the journal file being
\* writable (journal_ok) or not during the call.
CheckAllTriggers(metrics, elapsed, journal_ok) ==
    \E out \in {check_all_triggers(last_trigger_time, last_allocation,
                                   now + elapsed, journal_ok, metrics)} :
        /\ now' = now + elapsed
        /\ calls' = calls + 1
        /\ last_trigger_time' = out.last_trigger_time
        /\ last_allocation' = out.last_allocation
        /\ call' = [metrics |-> metrics, at |-> now + elapsed,
                    journal_ok |-> journal_ok,
                    pre_ltt |-> last_trigger_time, pre_alloc |-> last_allocation,
                    sent |-> out.sent, journal |-> out.journal,
                    returned |-> out.returned, raisedIn |-> out.raisedIn,
                    results |-> out.results]
        /\ prev' = IF calls = 0 THEN NoPrev
                   ELSE [metrics |-> call.metrics, at |-> call.at,
                         returned |-> call.returned, results |-> call.results,
                         fired |-> FiredKeys(call.pre_ltt, last_trigger_time, call.at)]
        /\ UNCHANGED <<sessions, alerts>>

Refresh ==
    /\ calls < MaxCalls
    /\ \E metrics \in Snapshots, elapsed \in ElapsedHours, journal_ok \in BOOLEAN :
          CheckAllTriggers(metrics, elapsed, journal_ok)

Next == Refresh

Spec == Init /\ [][Next]_vars

-----------------------------------------------------------------------------
(* A single call on a freshly constructed engine, over every combination   *)
(* of the values on and next to each threshold, present or absent.         *)

BtcDominanceValues == {59, 60, 61}
AltSeasonValues == {25, 26, 49, 50, 51, 74, 75}
FundingValues == {-10, -9, 9, 10}
StablecoinValues == {999999999, 1000000000}

Optional(field, values) == {<<>>} \cup { field :> v : v \in values }

BoundarySnapshots ==
    { Merge(Merge(Merge(b, a), Merge(f, h)), Merge(s, m)) :
        b \in Optional("btc_dominance", BtcDominanceValues),
        a \in Optional("alt_season_index", AltSeasonValues),
        f \in Optional("btc_funding_rate", FundingValues),
        h \in Optional("hype_funding_rate", FundingValues),
        s \in Optional("stablecoin_delta", StablecoinValues),
        m \in Optional("macro_events", MacroLists) }

FirstRefresh ==
    /\ calls = 0
    /\ \E metrics \in BoundarySnapshots, elapsed \in ElapsedHours,
          journal_ok \in BOOLEAN :
          CheckAllTriggers(metrics, elapsed, journal_ok)

SpecOnce == Init /\ [][FirstRefresh]_vars

-----------------------------------------------------------------------------
(* Successive calls over the market fields alone: btc_dominance and        *)
(* alt_season_index on and next to the thresholds they share between       *)
(* calculate_allocation and check_rotation_triggers, present or absent.    *)

MarketValues == {49, 50, 51}

MarketSnapshots ==
    { Merge(b, a) :
        b \in Optional("btc_dominance", BtcDominanceValues),
        a \in Optional("alt_season_index", MarketValues) }

MarketRefresh ==
    /\ calls < MaxCalls
    /\ \E metrics \in MarketSnapshots, elapsed \in ElapsedHours,
          journal_ok \in BOOLEAN :
          CheckAllTriggers(metrics, elapsed, journal_ok)

SpecMarket == Init /\ [][MarketRefresh]_vars

-----------------------------------------------------------------------------
(* Vocabulary of the properties, stated from the behaviour the dashboard   *)
(* documents and not through the definitions above.                        *)

Range(s) == { s[i] : i \in DOMAIN s }
Count(s, x) == Cardinality({ i \in DOMAIN s : s[i] = x })

MacroNames == {"macro_Fed Meeting", "macro_CPI"}
StaticNames ==
    {"rotation", "alt_season_full", "alt_season_end", "funding_btc",
     "funding_hype", "stablecoin_issuance"}
TriggerNames == StaticNames \cup MacroNames
Categories == {"rotation", "alt_season", "funding", "stablecoin", "macro"}

Window == 12    \* the cooldown window, in hours

\* no fire recorded for name, or the last one at least 12 hours before t
Eligible(ltt, t, name) == name \notin DOMAIN ltt \/ t - ltt[name] >= Window

\* the engine as _should_trigger sees it: now, and before the last call
EngineNow ==
    [now |-> now, journal_ok |-> TRUE, last_trigger_time |-> last_trigger_time,
     sent |-> <<>>, journal |-> <<>>, raised |-> FALSE]
EngineBefore ==
    [now |-> call.at, journal_ok |-> call.journal_ok,
     last_trigger_time |-> call.pre_ltt,
     sent |-> <<>>, journal |-> <<>>, raised |-> FALSE]

\* the keys the last call recorded
FiredNow == FiredKeys(call.pre_ltt, last_trigger_time, call.at)

AllocationNotified == "Allocation Update" \in Range(call.sent)
AllocationJournaled == \E i \in DOMAIN call.journal : call.journal[i][1] = "ALLOCATION"

\* two calls in a row with the identical snapshot, less than 12 hours apart
SameSnapshotTwice ==
    /\ calls >= 2
    /\ DOMAIN call.metrics = DOMAIN prev.metrics
    /\ \A k \in DOMAIN call.metrics : call.metrics[k] = prev.metrics[k]
    /\ call.at - prev.at < Window

-----------------------------------------------------------------------------
\* C1 as stated: when check_all_triggers is called twice in a row with the
\* identical snapshot and less than 12 hours between the calls, the second
\* call's rotation, alt_season, funding, stablecoin and macro results are all
\* None, its allocation equals the first call's, and it emits no Allocation
\* Update notification or journal entry.
C1_Original ==
    (SameSnapshotTwice /\ prev.returned /\ call.returned) =>
        /\ \A c \in Categories : call.results[c] = None
        /\ call.results.allocation = prev.results.allocation
        /\ ~AllocationNotified /\ ~AllocationJournaled

\* C1 (amended): when check_all_triggers is called twice in a row with the
\* identical snapshot and less than 12 hours between the calls, no cooldown
\* key recorded by the first call fires again in the second, so a rotation,
\* alt_season or stablecoin alert of the first call is absent from the second
\* (funding and macro may carry an alert of another key); and when the first
\* call returned, the second emits no Allocation Update notification or
\* journal entry and returns, if it returns, the first call's allocation.
C1_NoRefire ==
    SameSnapshotTwice =>
        /\ prev.fired \cap FiredNow = {}
        /\ (prev.returned /\ call.returned) =>
              \A c \in {"rotation", "alt_season", "stablecoin"} :
                  prev.results[c] # None => call.results[c] = None
        /\ prev.returned =>
              /\ ~AllocationNotified /\ ~AllocationJournaled
              /\ call.returned => call.results.allocation = prev.results.allocation

\* C1 witness: the second of two identical calls six hours apart returned with
\* rotation cooled (it fired in the first) and the macro alert of another event.
C1_Witness ==
    /\ SameSnapshotTwice /\ prev.returned /\ call.returned
    /\ prev.results.rotation # None /\ call.results.rotation = None
    /\ "rotation" \in prev.fired
    /\ prev.results.macro # None /\ call.results.macro # None
    /\ call.results.allocation = <<45, 50, 5>>

-----------------------------------------------------------------------------
\* C2: _should_trigger(name) is true iff no fire is recorded for name or at
\* least 12 hours have passed since the last recorded fire (exactly 12 hours
\* counts), both now and at the instant of the last call; a key recorded less
\* than 12 hours before a call does not fire in it, and one that fires again
\* does so 12 hours or more after its previous fire.
C2_Eligibility ==
    /\ \A name \in TriggerNames :
          _should_trigger(EngineNow, name) <=> Eligible(last_trigger_time, now, name)
    /\ calls >= 1 =>
          /\ \A name \in TriggerNames :
                _should_trigger(EngineBefore, name)
                    <=> Eligible(call.pre_ltt, call.at, name)
          /\ \A name \in DOMAIN call.pre_ltt :
                name \in FiredNow => call.at - call.pre_ltt[name] >= Window

\* C2 witness: rotation fired, and fired again exactly 12 hours later.
C2_Witness ==
    /\ calls >= 2
    /\ "rotation" \in DOMAIN call.pre_ltt
    /\ call.at - call.pre_ltt["rotation"] = Window
    /\ "rotation" \in FiredNow

-----------------------------------------------------------------------------
\* C3 as stated: a call emits the Allocation Update notification and its
\* ALLOCATION journal entry iff a previous call exists and the allocation of
\* this call differs from the allocation of the immediately preceding call,
\* never on the first call, and after every call last_allocation is the
\* allocation the call returned.
C3_Claim ==
    calls >= 1 =>
        LET differs == /\ calls >= 2
                       /\ calculate_allocation(call.metrics)
                              # calculate_allocation(prev.metrics)
        IN  /\ AllocationNotified <=> differs
            /\ AllocationJournaled <=> differs
            /\ call.returned
            /\ last_allocation = call.results.allocation
            /\ last_allocation = calculate_allocation(call.metrics)

\* C3 holds of every run in which append_journal_entry has not raised.
C3_WhileJournalWrites ==
    (calls >= 1 /\ call.returned /\ (calls >= 2 => prev.returned)) =>
        LET differs == /\ calls >= 2
                       /\ calculate_allocation(call.metrics)
                              # calculate_allocation(prev.metrics)
        IN  /\ AllocationNotified <=> differs
            /\ AllocationJournaled <=> differs
            /\ last_allocation = call.results.allocation
            /\ last_allocation = calculate_allocation(call.metrics)

-----------------------------------------------------------------------------
\* what the last call would have done with a journal that accepts every entry
WithWorkingJournal ==
    check_all_triggers(call.pre_ltt, call.pre_alloc, call.at, TRUE, call.metrics)

\* C4 as stated: when a sink call fails while a trigger fires, the call still
\* evaluates the remaining triggers, computes the allocation, stores it as
\* last_allocation and returns the results, and the cooldown entries are the
\* same as if the sink call had succeeded.
C4_Claim ==
    (calls >= 1 /\ ~call.journal_ok /\ FiredNow # {}) =>
        /\ call.returned
        /\ call.results.allocation = calculate_allocation(call.metrics)
        /\ last_allocation = calculate_allocation(call.metrics)
        /\ last_trigger_time = WithWorkingJournal.last_trigger_time

-----------------------------------------------------------------------------
HasPair(metrics) ==
    {"btc_dominance", "alt_season_index"} \subseteq DOMAIN metrics

Sum3(t) == t[1] + t[2] + t[3]

\* C5: for every pair (btc_dominance, alt_season_index) calculate_allocation
\* gives (0.70, 0.25, 0.05) when btc_dominance >= 61 and alt_season_index < 50,
\* else (0.45, 0.50, 0.05) when btc_dominance < 60 and alt_season_index >= 50,
\* else (0.60, 0.35, 0.05); the two named branches never both apply, the
\* triple sums to 1, 60 <= btc_dominance < 61 with alt_season_index < 50 is
\* neutral, and a call that returns carries that triple.
C5_Allocation ==
    (calls >= 1 /\ HasPair(call.metrics)) =>
        LET b == call.metrics.btc_dominance
            a == call.metrics.alt_season_index
            dominance == b >= 61 /\ a < 50
            altseason == b < 60 /\ a >= 50
            triple == calculate_allocation(call.metrics)
        IN  /\ dominance => triple = <<70, 25, 5>>
            /\ (~dominance /\ altseason) => triple = <<45, 50, 5>>
            /\ (~dominance /\ ~altseason) => triple = <<60, 35, 5>>
            /\ ~(dominance /\ altseason)
            /\ Sum3(triple) = 100
            /\ (60 <= b /\ b < 61 /\ a < 50) => triple = <<60, 35, 5>>
            /\ call.returned => call.results.allocation = triple

\* C5 witness: btc_dominance 60 with alt_season_index 49 returned neutral.
C5_Witness ==
    /\ calls = 1 /\ call.returned /\ HasPair(call.metrics)
    /\ call.metrics.btc_dominance = 60 /\ call.metrics.alt_season_index = 49
    /\ call.results.allocation = <<60, 35, 5>>

-----------------------------------------------------------------------------
AlertOf(name) ==
    CASE name = "rotation" -> "BTC.D < 60% & alt momentum"
      [] name = "alt_season_full" -> "Full alt-season"
      [] name = "alt_season_end" -> "Back to BTC dominance"
      [] name = "funding_btc" -> "Crowded leverage: BTC"
      [] name = "funding_hype" -> "Crowded leverage: HYPE"
      [] name = "stablecoin_issuance" -> "New stable-coin issuance"
      [] name = "macro_Fed Meeting" -> "Macro in play: Fed Meeting"
      [] name = "macro_CPI" -> "Macro in play: CPI"

RecordOf(name) ==
    CASE name = "rotation" -> <<"ROTATION", -10>>
      [] name = "alt_season_full" -> <<"ALTS", 25>>
      [] name = "alt_season_end" -> <<"BTC", 20>>
      [] name = "funding_btc" -> <<"BTC", -20>>
      [] name = "funding_hype" -> <<"HYPE", -20>>
      [] name = "stablecoin_issuance" -> <<"STABLES", 10>>
      [] name \in MacroNames -> <<"CASH", 0>>

CategoryOf(name) ==
    CASE name = "rotation" -> "rotation"
      [] name \in {"alt_season_full", "alt_season_end"} -> "alt_season"
      [] name \in {"funding_btc", "funding_hype"} -> "funding"
      [] name = "stablecoin_issuance" -> "stablecoin"
      [] name \in MacroNames -> "macro"

\* the category's result is the alert, alone or joined with the other one
Carries(result, alert) ==
    \/ result = alert
    \/ /\ result = "Crowded leverage: BTC; Crowded leverage: HYPE"
       /\ alert \in {"Crowded leverage: BTC", "Crowded leverage: HYPE"}

\* C6 as stated: whenever an evaluator fires for a cooldown key, the key's
\* time is recorded, exactly one notification is sent, exactly one journal
\* record is appended and the alert is returned; when it does not fire, none
\* of the four happens.
C6_Claim ==
    calls >= 1 =>
        /\ \A name \in TriggerNames :
              LET n == IF name \in FiredNow THEN 1 ELSE 0
              IN  /\ Count(call.sent, AlertOf(name)) = n
                  /\ name \in StaticNames => Count(call.journal, RecordOf(name)) = n
                  /\ Carries(call.results[CategoryOf(name)], AlertOf(name)) <=> (n = 1)
        /\ Count(call.journal, <<"CASH", 0>>) = Cardinality(FiredNow \cap MacroNames)

\* C6 holds of every call in which the journal accepts its entries.
C6_WhileJournalWrites ==
    (calls >= 1 /\ call.journal_ok) =>
        /\ \A name \in TriggerNames :
              LET n == IF name \in FiredNow THEN 1 ELSE 0
              IN  /\ Count(call.sent, AlertOf(name)) = n
                  /\ name \in StaticNames => Count(call.journal, RecordOf(name)) = n
                  /\ Carries(call.results[CategoryOf(name)], AlertOf(name)) <=> (n = 1)
        /\ Count(call.journal, <<"CASH", 0>>) = Cardinality(FiredNow \cap MacroNames)

-----------------------------------------------------------------------------
\* the last call reached check_macro_triggers
MacroRan ==
    /\ calls >= 1
    /\ call.raisedIn \notin {"rotation", "alt_season", "funding", "stablecoin"}

Events == Get(call.metrics, "macro_events", <<>>)
KeyOf(i) == "macro_" \o Events[i].event
Today == call.at \div 24

\* event i parses, its date's midnight is within 12 hours of the call, and
\* its key was not in cooldown when the call began
Qualifies(i) ==
    /\ Events[i].date >= 1
    /\ Abs(24 * Events[i].date - call.at) <= 12
    /\ Eligible(call.pre_ltt, call.at, KeyOf(i))

FirstQualifying ==
    { i \in DOMAIN Events : Qualifies(i) /\ \A j \in 1..(i - 1) : ~Qualifies(j) }

-----------------------------------------------------------------------------
\* C8 as stated: check_macro_triggers fires at most one event per call, the
\* first in list order whose date parses, lies within 12 hours of now and
\* whose key is eligible; an unparsable date is skipped without raising and
\* the events after it are still evaluated.
C8_Claim ==
    MacroRan =>
        /\ Cardinality(FiredNow \cap MacroNames) <= 1
        /\ FiredNow \cap MacroNames = { KeyOf(i) : i \in FirstQualifying }
        /\ call.raisedIn # "macro"
        /\ \A i \in FirstQualifying :
              call.returned => call.results.macro = AlertOf(KeyOf(i))

\* C8 holds of every call in which the journal accepts its entries.
C8_WhileJournalWrites ==
    (MacroRan /\ call.journal_ok) =>
        /\ Cardinality(FiredNow \cap MacroNames) <= 1
        /\ FiredNow \cap MacroNames = { KeyOf(i) : i \in FirstQualifying }
        /\ call.raisedIn # "macro"
        /\ \A i \in FirstQualifying :
              call.returned => call.results.macro = AlertOf(KeyOf(i))

-----------------------------------------------------------------------------
AllEligibleBefore ==
    \A name \in TriggerNames : Eligible(call.pre_ltt, call.at, name)

BtcDom == Get(call.metrics, "btc_dominance", 60)
AltIndex == Get(call.metrics, "alt_season_index", 50)
BtcFunding == Get(call.metrics, "btc_funding_rate", 0)
HypeFunding == Get(call.metrics, "hype_funding_rate", 0)
StableDelta == Get(call.metrics, "stablecoin_delta", 0)

Thresholds ==
    /\ "rotation" \in FiredNow <=> (BtcDom < 60 /\ AltIndex > 50)
    /\ "alt_season_full" \in FiredNow <=> AltIndex >= 75
    /\ "alt_season_end" \in FiredNow <=> AltIndex <= 25
    /\ "funding_btc" \in FiredNow <=> Abs(BtcFunding) >= 10
    /\ "funding_hype" \in FiredNow <=> Abs(HypeFunding) >= 10
    /\ "stablecoin_issuance" \in FiredNow <=> StableDelta >= 1000000000
    /\ ~({"alt_season_full", "alt_season_end"} \subseteq FiredNow)

\* C9 as stated: with every cooldown key eligible each evaluator fires exactly
\* on its condition: rotation iff btc_dominance < 60 and alt_season_index > 50,
\* alt_season_full iff alt_season_index >= 75, alt_season_end iff
\* alt_season_index <= 25, funding_btc iff abs(btc_funding_rate) >= 0.10,
\* funding_hype iff abs(hype_funding_rate) >= 0.10, stablecoin_issuance iff
\* stablecoin_delta >= 1,000,000,000; both funding keys fire in one cycle when
\* both conditions hold, the two alt-season keys never do.
C9_Claim == (calls >= 1 /\ AllEligibleBefore) => Thresholds

\* C9 holds of every call in which the journal accepts its entries.
C9_WhileJournalWrites ==
    (calls >= 1 /\ AllEligibleBefore /\ call.journal_ok) => Thresholds

-----------------------------------------------------------------------------
Defaults ==
    [btc_dominance |-> 60, alt_season_index |-> 50, btc_funding_rate |-> 0,
     hype_funding_rate |-> 0, stablecoin_delta |-> 0, macro_events |-> <<>>]

\* what the last call would have done had every absent field held its default
WithDefaults ==
    check_all_triggers(call.pre_ltt, call.pre_alloc, call.at, call.journal_ok,
                       Merge(call.metrics, Defaults))

SameAsWithDefaults ==
    /\ last_trigger_time = WithDefaults.last_trigger_time
    /\ last_allocation = WithDefaults.last_allocation
    /\ call.sent = WithDefaults.sent
    /\ call.journal = WithDefaults.journal
    /\ call.returned = WithDefaults.returned
    /\ call.results = WithDefaults.results

EmptySnapshotIsNeutral ==
    DOMAIN call.metrics = {} =>
        /\ FiredNow = {}
        /\ last_trigger_time = call.pre_ltt
        /\ \A c \in Categories : call.results[c] = None

\* C10 as stated: a snapshot lacking any subset of the metric fields never
\* makes check_all_triggers fail: each absent field acts as its default
\* (btc_dominance 60, alt_season_index 50, funding rates 0, stablecoin_delta
\* 0, macro_events empty), and an entirely empty snapshot yields the neutral
\* allocation, fires no trigger and changes no cooldown entry.
C10_Claim ==
    (calls >= 1 /\ DOMAIN call.metrics # DOMAIN Defaults) =>
        /\ call.returned
        /\ SameAsWithDefaults
        /\ EmptySnapshotIsNeutral
        /\ DOMAIN call.metrics = {} => call.results.allocation = <<60, 35, 5>>

\* C10 but for the call failing: an absent field acts as its default in every
\* call, and an empty snapshot that returns returns the neutral allocation.
C10_DefaultsOnly ==
    (calls >= 1 /\ DOMAIN call.metrics # DOMAIN Defaults) =>
        /\ SameAsWithDefaults
        /\ EmptySnapshotIsNeutral
        /\ (DOMAIN call.metrics = {} /\ call.returned)
              => call.results.allocation = <<60, 35, 5>>

-----------------------------------------------------------------------------
\* the cooldown keys an evaluator may write
KeysOf(stage) == { name \in TriggerNames : CategoryOf(name) = stage }

\* the snapshot condition of a static key
Condition(name) ==
    CASE name = "rotation" -> BtcDom < 60 /\ AltIndex > 50
      [] name = "alt_season_full" -> AltIndex >= 75
      [] name = "alt_season_end" -> AltIndex <= 25
      [] name = "funding_btc" -> Abs(BtcFunding) >= 10
      [] name = "funding_hype" -> Abs(HypeFunding) >= 10
      [] name = "stablecoin_issuance" -> StableDelta >= 1000000000

StaticOrder ==
    <<"rotation", "alt_season_full", "alt_season_end", "funding_btc",
      "funding_hype", "stablecoin_issuance">>

AlertsSent == { i \in DOMAIN call.sent : call.sent[i] # "Allocation Update" }

\* C11: evaluating or firing one condition leaves the last-fired time of
\* every other cooldown key unchanged: each evaluator writes only the keys of
\* its own category, a call writes exactly one key per alert it sends and
\* that key is the alert's own, no entry is ever removed, and a key in
\* cooldown never prevents a different key from firing: a static key fires
\* iff its own condition holds and its own key is eligible, unless the call
\* ended at an earlier key's fire, and a macro event in the window whose own
\* key is eligible fires unless an earlier event fired in the call; so
\* funding_hype fires whatever the cooldown of funding_btc.
C11_Frame ==
    calls >= 1 =>
        LET fired == FiredNow
        IN  /\ DOMAIN call.pre_ltt \subseteq DOMAIN last_trigger_time
            /\ \A k \in DOMAIN last_trigger_time \ fired :
                  /\ k \in DOMAIN call.pre_ltt
                  /\ last_trigger_time[k] = call.pre_ltt[k]
            /\ \A k \in fired :
                  /\ k \in TriggerNames
                  /\ Count(call.sent, AlertOf(k)) = 1
            /\ Cardinality(fired) = Cardinality(AlertsSent)
            /\ \A stage \in Categories :
                  LET after == Evaluate(stage, EngineBefore,
                                        call.metrics).r.last_trigger_time
                  IN  /\ DOMAIN call.pre_ltt \subseteq DOMAIN after
                      /\ \A k \in DOMAIN after \ KeysOf(stage) :
                            /\ k \in DOMAIN call.pre_ltt
                            /\ after[k] = call.pre_ltt[k]
            /\ \A n \in DOMAIN StaticOrder :
                  StaticOrder[n] \in fired
                      <=> /\ Condition(StaticOrder[n])
                          /\ Eligible(call.pre_ltt, call.at, StaticOrder[n])
                          /\ ~(/\ ~call.journal_ok
                               /\ \E m \in 1..(n - 1) : StaticOrder[m] \in fired)
            /\ MacroRan =>
                  \A i \in DOMAIN Events :
                      Qualifies(i) =>
                          \/ KeyOf(i) \in fired
                          \/ \E j \in 1..(i - 1) : KeyOf(j) \in fired

\* C11 witness: funding_hype fired in a call made while funding_btc was in
\* cooldown, and the entry of funding_btc kept its time.
C11_Witness ==
    /\ calls >= 2 /\ call.returned
    /\ "funding_btc" \in DOMAIN call.pre_ltt
    /\ ~Eligible(call.pre_ltt, call.at, "funding_btc")
    /\ Abs(BtcFunding) >= 10
    /\ "funding_hype" \in FiredNow
    /\ "funding_btc" \notin FiredNow
    /\ last_trigger_time["funding_btc"] = call.pre_ltt["funding_btc"]

-----------------------------------------------------------------------------
(* Two sessions on the shared engine.  dashboard.init_components is cached *)
(* with st.cache_resource, so every session's run of main() calls          *)
(* check_all_triggers on the same TriggerEngine, from its own thread and   *)
(* with no lock.  A call is taken one statement that touches the engine or *)
(* a sink at a time; the conditions on the snapshot are local to the       *)
(* thread and are evaluated when the call begins (a condition that is      *)
(* false short-circuits before _should_trigger is called).  The clock does *)
(* not advance while a call is running.                                    *)

Candidate(stage, key, message, asset, change_pct) ==
    [stage |-> stage, key |-> key, message |-> message,
     asset |-> asset, change_pct |-> change_pct]

\* the events of check_macro_triggers whose date parses within 12 hours of t
MacroCandidates(macro_events, t) ==
    LET near == SelectSeq(macro_events,
                    LAMBDA event : /\ DateParses(event.date)
                                   /\ Abs(strptime(event.date) - t) <= 12)
    IN  [j \in 1..Len(near) |->
            Candidate("macro", MacroKey(near[j]), MacroMessage(near[j]), "CASH", 0)]

\* the cooldown keys whose snapshot condition holds, in the order
\* check_all_triggers reaches their _should_trigger
Program(metrics, t) ==
    LET btc_dom == Get(metrics, "btc_dominance", 60)
        alt_index == Get(metrics, "alt_season_index", 50)
        btc_funding == Get(metrics, "btc_funding_rate", 0)
        hype_funding == Get(metrics, "hype_funding_rate", 0)
        stable_delta == Get(metrics, "stablecoin_delta", 0)
    IN  (IF btc_dom < 60 /\ alt_index > 50
         THEN <<Candidate("rotation", "rotation", "BTC.D < 60% & alt momentum",
                          "ROTATION", -10)>>
         ELSE <<>>)
        \o (IF alt_index >= 75
            THEN <<Candidate("alt_season", "alt_season_full", "Full alt-season",
                             "ALTS", 25)>>
            ELSE IF alt_index <= 25
            THEN <<Candidate("alt_season", "alt_season_end",
                             "Back to BTC dominance", "BTC", 20)>>
            ELSE <<>>)
        \o (IF Abs(btc_funding) >= 10
            THEN <<Candidate("funding", "funding_btc", "Crowded leverage: BTC",
                             "BTC", -20)>>
            ELSE <<>>)
        \o (IF Abs(hype_funding) >= 10
            THEN <<Candidate("funding", "funding_hype", "Crowded leverage: HYPE",
                             "HYPE", -20)>>
            ELSE <<>>)
        \o (IF stable_delta >= 1000000000
            THEN <<Candidate("stablecoin", "stablecoin_issuance",
                             "New stable-coin issuance", "STABLES", 10)>>
            ELSE <<>>)
        \o MacroCandidates(Get(metrics, "macro_events", <<>>), t)

InterleavedSnapshots ==
    { [btc_dominance |-> 59, alt_season_index |-> 75],
      [btc_funding_rate |-> 10, hype_funding_rate |-> -10],
      [stablecoin_delta |-> 1000000000,
       macro_events |-> <<Event("Fed Meeting", 2), Event("CPI", 2)>>] }

Running(s) == sessions[s].pc # "idle"

\* the session moves on to the next candidate, or to the allocation part
NextCandidate(session) ==
    IF session.i + 1 > Len(session.program)
    THEN [session EXCEPT !.pc = "allocation", !.i = 0]
    ELSE [session EXCEPT !.pc = "test", !.i = @ + 1]

\* the exception leaves check_all_triggers: the script run ends
Raise(session) ==
    [session EXCEPT !.pc = "idle", !.i = 0, !.metrics = <<>>, !.program = <<>>,
                    !.results = NoResults, !.returned = FALSE]

\* main(): trigger_engine.check_all_triggers(metrics) begins in session s,
\* `elapsed` hours after the last refresh when no other run is in progress
Begin(s, metrics, elapsed) ==
    /\ calls < MaxCalls
    /\ ~Running(s)
    /\ (\E o \in Sessions : Running(o)) => elapsed = 0
    /\ (\A o \in Sessions : ~Running(o)) => elapsed \in ElapsedHours
    /\ now' = now + elapsed
    /\ calls' = calls + 1
    /\ sessions' =
          [o \in Sessions |->
              IF o = s
              THEN NextCandidate(
                       [pc |-> "test", metrics |-> metrics,
                        program |-> Program(metrics, now + elapsed), i |-> 0,
                        results |-> NoResults, returned |-> FALSE,
                        overlapped |-> sessions[s].overlapped
                                          \/ \E x \in Sessions : Running(x)])
              ELSE [sessions[o] EXCEPT !.overlapped = @ \/ Running(o)]]
    /\ UNCHANGED <<last_trigger_time, last_allocation, call, prev, alerts>>

\* `... and self._should_trigger(trigger_name)`
Test(s) ==
    /\ sessions[s].pc = "test"
    /\ LET key == sessions[s].program[sessions[s].i].key
       IN  sessions' = [sessions EXCEPT ![s] =
                           IF _should_trigger(EngineNow, key)
                           THEN [@ EXCEPT !.pc = "record"]
                           ELSE NextCandidate(@)]
    /\ UNCHANGED <<now, last_trigger_time, last_allocation, calls, call, prev,
                   alerts>>

\* self._record_trigger(trigger_name)
Record(s) ==
    /\ sessions[s].pc = "record"
    /\ LET key == sessions[s].program[sessions[s].i].key
       IN  last_trigger_time' = _record_trigger(EngineNow, key).last_trigger_time
    /\ sessions' = [sessions EXCEPT ![s].pc = "send"]
    /\ UNCHANGED <<now, last_allocation, calls, call, prev, alerts>>

\* send_telegram_message(message)
Send(s) ==
    /\ sessions[s].pc = "send"
    /\ LET c == sessions[s].program[sessions[s].i]
       IN  alerts' = Append(alerts, [key |-> c.key, text |-> c.message,
                                     at |-> now, session |-> s])
    /\ sessions' = [sessions EXCEPT ![s].pc = "journal"]
    /\ UNCHANGED <<now, last_trigger_time, last_allocation, calls, call, prev>>

\* append_journal_entry(...) and what follows it: `return message` in the
\* single-alert evaluators and in the macro loop, the next test in
\* check_funding_triggers; an exception ends the call, except in the macro
\* loop, whose handler continues with the next event
Journal(s, journal_ok) ==
    /\ sessions[s].pc = "journal"
    /\ LET c == sessions[s].program[sessions[s].i]
           joined == IF sessions[s].results[c.stage] = None THEN c.message
                     ELSE sessions[s].results[c.stage] \o "; " \o c.message
       IN  sessions' = [sessions EXCEPT ![s] =
               IF journal_ok
               THEN IF c.stage = "macro"
                    THEN [@ EXCEPT !.results.macro = c.message,
                                   !.pc = "allocation", !.i = 0]
                    ELSE NextCandidate([@ EXCEPT !.results[c.stage] = joined])
               ELSE IF c.stage = "macro" THEN NextCandidate(@)
                    ELSE Raise(@)]
    /\ UNCHANGED <<now, last_trigger_time, last_allocation, calls, call, prev,
                   alerts>>

\* if self.last_allocation and self.last_allocation != current_allocation
Allocation(s) ==
    /\ sessions[s].pc = "allocation"
    /\ LET current_allocation == calculate_allocation(sessions[s].metrics)
       IN  sessions' = [sessions EXCEPT ![s].pc =
                           IF /\ last_allocation # NoAllocation
                              /\ last_allocation # current_allocation
                           THEN "notify" ELSE "store"]
    /\ UNCHANGED <<now, last_trigger_time, last_allocation, calls, call, prev,
                   alerts>>

\* send_telegram_message(message) of the Allocation Update
Notify(s) ==
    /\ sessions[s].pc = "notify"
    /\ alerts' = Append(alerts, [key |-> "allocation", text |-> "Allocation Update",
                                 at |-> now, session |-> s])
    /\ sessions' = [sessions EXCEPT ![s].pc = "log"]
    /\ UNCHANGED <<now, last_trigger_time, last_allocation, calls, call, prev>>

\* append_journal_entry("ALLOCATION", btc_change, ...)
Log(s, journal_ok) ==
    /\ sessions[s].pc = "log"
    /\ sessions' = [sessions EXCEPT ![s] =
                       IF journal_ok THEN [@ EXCEPT !.pc = "store"] ELSE Raise(@)]
    /\ UNCHANGED <<now, last_trigger_time, last_allocation, calls, call, prev,
                   alerts>>

\* self.last_allocation = current_allocation; results['allocation'] = ...;
\* return results
Store(s) ==
    /\ sessions[s].pc = "store"
    /\ LET current_allocation == calculate_allocation(sessions[s].metrics)
       IN  /\ last_allocation' = current_allocation
           /\ sessions' = [sessions EXCEPT ![s] =
                  [@ EXCEPT !.results.allocation = current_allocation,
                            !.returned = TRUE, !.pc = "idle",
                            !.metrics = <<>>, !.program = <<>>]]
    /\ UNCHANGED <<now, last_trigger_time, calls, call, prev, alerts>>

NextInterleaved ==
    \E s \in Sessions :
        \/ \E metrics \in InterleavedSnapshots, elapsed \in ElapsedHours \cup {0} :
              Begin(s, metrics, elapsed)
        \/ Test(s)
        \/ Record(s)
        \/ Send(s)
        \/ \E journal_ok \in BOOLEAN : Journal(s, journal_ok)
        \/ Allocation(s)
        \/ Notify(s)
        \/ \E journal_ok \in BOOLEAN : Log(s, journal_ok)
        \/ Store(s)

SpecInterleaved == Init /\ [][NextInterleaved]_vars

\* no two calls have been in progress at the same time so far
Serialized == \A s \in Sessions : ~sessions[s].overlapped

\* every two deliveries of the same trigger's alert are 12 hours or more apart
FiresApart ==
    \A i, j \in DOMAIN alerts :
        (i < j /\ alerts[i].key = alerts[j].key /\ alerts[i].key \in TriggerNames)
            => alerts[j].at - alerts[i].at >= Window

\* C12 as stated: between any two fires of the same cooldown key by one
\* TriggerEngine at least 12 hours elapse, also when the check_all_triggers
\* calls of two sessions on the shared engine interleave: no interleaving
\* lets both calls pass _should_trigger for the same key and both send its
\* alert.
C12_Claim == FiresApart

\* C12 holds as long as the calls on the engine have not overlapped.
C12_WhileSerialized == Serialized => FiresApart

-----------------------------------------------------------------------------
\* C13 as stated: a cooldown key's last-fired time is updated only in a
\* check_all_triggers call whose returned result carries that trigger's
\* alert: after no call, even one in which a journal append raises while the
\* trigger is firing, is a key newly in cooldown although its alert is absent
\* from the result handed back to the caller.
C13_Claim ==
    calls >= 1 =>
        \A name \in FiredNow :
            /\ call.returned
            /\ Carries(call.results[CategoryOf(name)], AlertOf(name))

\* C13 holds of every call in which the journal accepts its entries.
C13_WhileJournalWrites ==
    (calls >= 1 /\ call.journal_ok) =>
        \A name \in FiredNow :
            /\ call.returned
            /\ Carries(call.results[CategoryOf(name)], AlertOf(name))

-----------------------------------------------------------------------------
AltSeasonTriple == <<45, 50, 5>>

RotationCooled == ~Eligible(call.pre_ltt, call.at, "rotation")

\* C14: in every check_all_triggers call in which the rotation trigger fires
\* the allocation of the call, which is what the call returns and stores when
\* it returns, is the alt-season triple (0.45, 0.50, 0.05); a call that
\* returns that triple without rotation firing has alt_season_index exactly
\* 50 or the rotation key in cooldown, and in both of these cases the triple
\* is indeed returned without rotation firing.
C14_RotationAllocation ==
    calls >= 1 =>
        /\ "rotation" \in FiredNow =>
              /\ calculate_allocation(call.metrics) = AltSeasonTriple
              /\ call.returned =>
                    /\ call.results.allocation = AltSeasonTriple
                    /\ last_allocation = AltSeasonTriple
        /\ (/\ call.returned
            /\ call.results.allocation = AltSeasonTriple
            /\ "rotation" \notin FiredNow)
              => (AltIndex = 50 \/ RotationCooled)
        /\ (/\ call.returned
            /\ BtcDom < 60
            /\ (AltIndex = 50 \/ (AltIndex > 50 /\ RotationCooled)))
              => /\ call.results.allocation = AltSeasonTriple
                 /\ "rotation" \notin FiredNow

\* C14 witness: rotation fired in a call that returned the alt-season triple,
\* and the next call, with rotation in cooldown, returned the triple again
\* without firing.
C14_Witness ==
    /\ calls >= 2 /\ prev.returned /\ call.returned /\ call.journal_ok
    /\ "rotation" \in prev.fired
    /\ prev.results.allocation = AltSeasonTriple
    /\ AltIndex > 50 /\ RotationCooled
    /\ "rotation" \notin FiredNow
    /\ call.results.allocation = AltSeasonTriple

====
